---- MODULE Spec2Model ----
(***************************************************************************)
(* Delivery-drone coordinator: rc/server.py (the server that drives the    *)
(* vehicle through hakosim) and rc/mock_server.py (the asyncio stand-in    *)
(* with a simulated delivery).                                             *)
(*                                                                         *)
(*   Spec       rc/server.py: request handlers, the delivery threads       *)
(*              (transport_multi), their ETA threads, the polling thread   *)
(*   SpecMock   rc/mock_server.py: request handlers, simulate_delivery     *)
(*              tasks under delivery_lock, on_cleanup                      *)
(*   SpecAstar  DroneController.astar applied to bounded graphs            *)
(*                                                                         *)
(* Units.  Lengths are in half metres, so DEFAULT_HEIGHT (0.5 m) is 1.     *)
(* state["eta"] of server.py is distance / DEFAULT_SPEED; it is kept as    *)
(* the distance in half metres, i.e. in thirds of a second.  The ETA of    *)
(* mock_server.py is kept in half seconds (6.0 s is 12).                   *)
(* Node ids "P0", "P1", ... are the naturals 0, 1, ...: heapq orders the   *)
(* (f, id) tuples by f and then by id, and the naturals keep that order.   *)
(***************************************************************************)
EXTENDS Integers, Sequences, FiniteSets, TLC

\* ------------------------------------------------------------------ bounds
\* Node ids of the graphs astar is applied to are 0 .. MaxNodes-1.
MaxNodes == 3
\* Most neighbour entries ("connect" elements) a graph has in all.
MaxEdges == 4
\* Most orders registered (uuid4 values issued) in one run of a server.
MaxOrders == 2
\* Most delivery threads rc/server.py starts in one run of the server.
MaxRuns == 2
\* Most WebSocket connections (ws objects) made in one run of a server.
MaxSockets == 2

\* ------------------------------------------------------------------ values
\* What a call hands back: a list of node ids, Python's None, or an exception
\* that leaves the function.
Path(ids) == [tag |-> "path", ids |-> ids]
None == [tag |-> "None"]
KeyError == [tag |-> "raise", exc |-> "KeyError"]
Pending == [tag |-> "pending"]
\* float('inf') of g_score / f_score: larger than any path cost of a model graph.
Inf == 1000000
\* rc/server.py line 9, DEFAULT_HEIGHT = 0.5 m, in half metres.
DEFAULT_HEIGHT == 1

VARIABLES
    \* --- SpecAstar: one call astar(nodes, start_id, goal_id)
    nodes,        \* id -> [pos, connect], as load_checkpoints returns it
    start_id,
    goal_id,
    astar_ret,    \* Pending before the call; then Path(..), None or KeyError
    \* --- Spec: rc/server.py
    orders,       \* OrderManager.orders: order id -> order
    issued,       \* how many uuid4 values have been drawn; the k-th one is k
    state,        \* DroneController.state
    runs,         \* the transport_multi threads, in the order they were started
    \* --- SpecMock: rc/mock_server.py
    ORDERS,       \* order id -> order
    uuids,        \* how many uuid4 values have been drawn; the k-th one is k
    DRONE_STATE,  \* [status, eta]
    delivery_lock,\* asyncio.Lock: [locked, waiters]
    tasks,        \* the simulate_delivery tasks of app["tasks"], in creation order
    serving,      \* FALSE once on_cleanup has run
    \* --- SpecBroadcast: rc/server.py, the broadcast task and its subscribers
    connected_ws_delivery,  \* the ws objects of /Delivery/ws
    connected_ws_order,     \* the ws objects of /Order/ws
    broadcast_task,         \* where broadcast_state stands, or how it ended
    \* --- SpecMockBroadcast: rc/mock_server.py, the same
    WS_DELIVERY,
    WS_ORDER,
    broadcaster,            \* where broadcast_snapshot stands, or how it ended
    \* --- the WebSocket connections, as both servers meet them
    ws_conn,      \* ws -> [conn, path]: the connection of each ws object
    delivered,    \* the ws objects the snapshot of the current round reached
    push_failed   \* the ws objects on which send_str has raised

avars == <<nodes, start_id, goal_id, astar_ret>>
svars == <<orders, issued, state, runs>>
mvars == <<ORDERS, uuids, DRONE_STATE, delivery_lock, tasks, serving>>
bvars == <<connected_ws_delivery, connected_ws_order, broadcast_task,
           WS_DELIVERY, WS_ORDER, broadcaster, ws_conn, delivered, push_failed>>
vars == <<nodes, start_id, goal_id, astar_ret, orders, issued, state, runs,
          ORDERS, uuids, DRONE_STATE, delivery_lock, tasks, serving,
          connected_ws_delivery, connected_ws_order, broadcast_task,
          WS_DELIVERY, WS_ORDER, broadcaster, ws_conn, delivered, push_failed>>

\* ------------------------------------------------------------------ astar
\* dict.get(k, default)
Get(d, k, default) == IF k \in DOMAIN d THEN d[k] ELSE default

\* n ** 0.5 for the n the model meets: every model position is chosen so that
\* the squared distances are perfect squares, where the float result is exact.
Sqrt(n) == CHOOSE r \in 0..n : r * r = n

\* DroneController.distance: x and y are required, z defaults to DEFAULT_HEIGHT.
distance(a, b) ==
    LET dx == a["x"] - b["x"]
        dy == a["y"] - b["y"]
        dz == Get(a, "z", DEFAULT_HEIGHT) - Get(b, "z", DEFAULT_HEIGHT)
    IN  Sqrt(dx * dx + dy * dy + dz * dz)

\* Tuple order of the heap entries (f, id).
HeapLE(e, o) == e[1] < o[1] \/ (e[1] = o[1] /\ e[2] <= o[2])

\* heapq.heappop: the least entry.  No entry is pushed twice (a push needs a
\* strictly smaller g for the same id), so the heap is kept as a set.
HeapMin(open_set) == CHOOSE e \in open_set : \A o \in open_set : HeapLE(e, o)

\* A slip in the path reconstruction: the list is handed back goal first.
ReverseForgotten(s) == s

\* path[::-1]
Reverse(s) == [i \in 1..Len(s) |-> s[Len(s) + 1 - i]]

\* A slip in the path reconstruction: the predecessor links are not followed.
ReconstructPathStop(came_from, current, path) == path

\* while current in came_from: current = came_from[current]; path.append(current)
RECURSIVE ReconstructPath(_, _, _)
ReconstructPath(came_from, current, path) ==
    IF current \in DOMAIN came_from
    THEN ReconstructPath(came_from, came_from[current],
                         Append(path, came_from[current]))
    ELSE path

\* One pass of "for neighbor in nodes[current]['connect']" from index i on.
\* s = [open_set, came_from, g_score, f_score].
RECURSIVE RelaxNeighbors(_, _, _, _, _)
RelaxNeighbors(nds, goal, current, i, s) ==
    LET connect == nds[current].connect IN
    IF i > Len(connect) THEN s
    ELSE
      LET neighbor == connect[i] IN
      IF neighbor \notin DOMAIN nds
      THEN RelaxNeighbors(nds, goal, current, i + 1, s)
      ELSE
        LET tentative_g == s.g_score[current]
                             + distance(nds[current].pos, nds[neighbor].pos)
            f == tentative_g + distance(nds[neighbor].pos, nds[goal].pos)
        IN  IF tentative_g < s.g_score[neighbor]
            THEN RelaxNeighbors(nds, goal, current, i + 1,
                   [open_set  |-> s.open_set \cup {<<f, neighbor>>},
                    came_from |-> [n \in DOMAIN s.came_from \cup {neighbor} |->
                                     IF n = neighbor THEN current
                                     ELSE s.came_from[n]],
                    g_score   |-> [s.g_score EXCEPT ![neighbor] = tentative_g],
                    f_score   |-> [s.f_score EXCEPT ![neighbor] = f]])
            ELSE RelaxNeighbors(nds, goal, current, i + 1, s)

\* while open_set: pop; goal test; expand.  None when the heap runs empty.
RECURSIVE AstarLoop(_, _, _)
AstarLoop(nds, goal, s) ==
    IF s.open_set = {} THEN None
    ELSE
      LET e == HeapMin(s.open_set)
          current == e[2]
          popped == [s EXCEPT !.open_set = @ \ {e}]
      IN  IF current = goal
          THEN Path(Reverse(ReconstructPath(popped.came_from, current,
                                            <<current>>)))
          ELSE AstarLoop(nds, goal, RelaxNeighbors(nds, goal, current, 1, popped))

\* DroneController.astar.  nodes[start_id] and nodes[goal_id] on line 74 raise
\* KeyError for an id that is not a node.
astar(nds, start, goal) ==
    IF start \notin DOMAIN nds \/ goal \notin DOMAIN nds THEN KeyError
    ELSE AstarLoop(nds, goal,
           [open_set  |-> {<<0, start>>},
            came_from |-> <<>>,
            g_score   |-> [n \in DOMAIN nds |-> IF n = start THEN 0 ELSE Inf],
            f_score   |-> [n \in DOMAIN nds |->
                             IF n = start
                             THEN distance(nds[start].pos, nds[goal].pos)
                             ELSE Inf]])

\* ------------------------------------------------------------------ rc/server.py: values
\* state["status"]
Idle == "Idle"                  \* "待機中"
Preparing == "Preparing"        \* "配達準備中"
EnRouteOut == "EnRouteOut"      \* "配達開始"
Completed == "Completed"        \* "配達完了"
Returning == "Returning"        \* "帰還中"

\* state["eta"] is None.
NoneEta == -1
\* get_destination_id returned None.
NoneDest == -1
\* data.get("order_id") of a request body without the key.
NoOrderId == 0
\* An order id no register_order ever returned.
UnknownId == 99

\* JSON values of the request bodies: a number, or a string that is no number.
JInt(n) == [int |-> n]
JStr(t) == [str |-> t]

\* The outcome of int(v): [ok, v].  int() of a string that is no number
\* raises ValueError.
PyInt(v) == IF "int" \in DOMAIN v THEN [ok |-> TRUE, v |-> v.int]
            ELSE [ok |-> FALSE, v |-> 0]

\* checkPoints.json as load_checkpoints returns it: P0 - P1 - P2 in a row of
\* neighbours (P0 (0,0,0), P1 (3,0,0), P2 (3,4,0), in half metres here), P1
\* also naming a node that does not exist, and P3 that no node leads to.
CheckPoints ==
    (0 :> [pos |-> [x |-> 0, y |-> 0, z |-> 0], connect |-> <<1>>]) @@
    (1 :> [pos |-> [x |-> 6, y |-> 0, z |-> 0], connect |-> <<0, 2, 7>>]) @@
    (2 :> [pos |-> [x |-> 6, y |-> 8, z |-> 0], connect |-> <<1>>]) @@
    (3 :> [pos |-> [x |-> 0, y |-> 8, z |-> 0], connect |-> <<>>])

\* Bodies of POST /register_order.
RegisterBodies ==
    { [omurice |-> JInt(2), point |-> [dest_id |-> 2]],
      [omurice |-> JInt(0), hamburg |-> JInt(0), onigiri |-> JInt(0),
       point |-> [dest_id |-> 3]],
      [omurice |-> JInt(-1), hamburg |-> JInt(1), point |-> [dest_id |-> 2]],
      [omurice |-> JStr("abc"), point |-> [dest_id |-> 2]],
      [omurice |-> JInt(2)],
      [omurice |-> JInt(2), point |-> <<>>] }

\* Poses simGetVehiclePose reports (orientation already as Euler angles).
\* The set is closed under mixing the coordinates of two poses, which is what
\* update_eta reads when debug_pos writes between its reads of x, y and z.
Poses ==
    { [x |-> 0, y |-> 0, z |-> 0, roll |-> 0, pitch |-> 0, yaw |-> 0],
      [x |-> 6, y |-> 0, z |-> 0, roll |-> 0, pitch |-> 0, yaw |-> 0] }

\* The fixed pick-up position start_delivery passes as baggage_pos.
BaggagePos == [x |-> 4, y |-> 0, z |-> DEFAULT_HEIGHT]

\* ------------------------------------------------------------------ rc/mock_server.py: state
\* DRONE_STATE["status"] "配達中", which only mock_server.py has.
InDelivery == "InDelivery"

\* The ETA the countdown starts from (6.0 s) and its rounds (range(12)), in
\* half seconds and rounds of half a second.
EtaStart == 12
CountdownRounds == 12

\* The item keys of an order of mock_server.py.
ItemKeys == {"w1", "w2", "w3", "j1", "j2", "j3", "c1", "c2", "c3"}

\* Bodies of POST /register_order of mock_server.py.
MockRegisterBodies ==
    { [w1 |-> JInt(2), point |-> [dest_id |-> JStr("P2")]],
      [w1 |-> JInt(0), j1 |-> JInt(0), point |-> [dest_id |-> JStr("P2")]],
      [w1 |-> JInt(-1), j2 |-> JInt(1), point |-> [dest_id |-> JInt(2)]],
      [w1 |-> JInt(-1), c3 |-> JStr("abc"), point |-> [dest_id |-> JStr("P2")]],
      [w1 |-> JInt(2)],
      [w1 |-> JInt(2), point |-> [dest_id |-> JStr("")]] }

\* The ws objects, in the order the connections are made.
Sockets == 1..MaxSockets

\* The two WebSocket routes.
DeliveryWs == "/Delivery/ws"
OrderWs == "/Order/ws"

\* No connection yet; the subscriber sets are empty and the broadcast task
\* of on_startup is about to run its first round.
BroadcastInit ==
    /\ connected_ws_delivery = {}
    /\ connected_ws_order = {}
    /\ broadcast_task = "delivery"
    /\ WS_DELIVERY = {}
    /\ WS_ORDER = {}
    /\ broadcaster = "delivery"
    /\ ws_conn = [w \in Sockets |-> [conn |-> "unused", path |-> ""]]
    /\ delivered = {}
    /\ push_failed = {}

MockInit ==
    /\ ORDERS = <<>>
    /\ uuids = 0
    /\ DRONE_STATE = [status |-> Idle, eta |-> NoneEta]
    /\ delivery_lock = [locked |-> FALSE, waiters |-> <<>>]
    /\ tasks = <<>>
    /\ serving = TRUE

\* ------------------------------------------------------------------ rc/server.py: state
ServerInit ==
    /\ orders = <<>>
    /\ issued = 0
    /\ state = [x |-> 0, y |-> 0, z |-> 0, roll |-> 0, pitch |-> 0, yaw |-> 0,
                status |-> Idle, eta |-> NoneEta]
    /\ runs = <<>>

Init ==
    /\ ServerInit
    /\ MockInit
    /\ BroadcastInit
    /\ nodes = CheckPoints
    /\ start_id = 0
    /\ goal_id = NoneDest
    /\ astar_ret = Pending

\* ------------------------------------------------------------------ rc/server.py: orders
\* OrderManager.register_order: the order stored for the body, or the
\* ValueError of an int() that fails.
NewOrder(order_id, data) ==
    LET o == PyInt(Get(data, "omurice", JInt(0)))
        h == PyInt(Get(data, "hamburg", JInt(0)))
        g == PyInt(Get(data, "onigiri", JInt(0)))
    IN  IF o.ok /\ h.ok /\ g.ok
        THEN [ok |-> TRUE,
              order |-> [id |-> order_id, omurice |-> o.v, hamburg |-> h.v,
                         onigiri |-> g.v, point |-> data.point]]
        ELSE [ok |-> FALSE]

\* A slip in complete_order: the whole store is emptied.
complete_order_clear(ords, order_id) == <<>>

\* OrderManager.complete_order
complete_order(ords, order_id) ==
    IF order_id \in DOMAIN ords
    THEN [k \in DOMAIN ords \ {order_id} |-> ords[k]]
    ELSE ords

\* OrderManager.get_destination_id
get_destination_id(ords, order_id) ==
    IF order_id \notin DOMAIN ords THEN NoneDest
    ELSE Get(ords[order_id].point, "dest_id", NoneDest)

\* "not point" of DeliveryServer.register_order: the key is missing or the
\* object is empty.
PointMissing(data) == "point" \notin DOMAIN data \/ DOMAIN data.point = {}

\* The HTTP status DeliveryServer.register_order answers with: 400 "Invalid
\* point", 500 for the ValueError that leaves the handler, 200 with the id.
register_order_status(data) ==
    IF PointMissing(data) THEN 400
    ELSE IF NewOrder(issued + 1, data).ok THEN 200 ELSE 500

\* DeliveryServer.register_order (POST /register_order).  uuid4 is drawn
\* before the quantities are converted.
register_order(data) ==
    /\ UNCHANGED <<state, runs, avars, mvars, bvars>>
    /\ IF PointMissing(data)
       THEN UNCHANGED <<orders, issued>>
       ELSE LET order_id == issued + 1
                new == NewOrder(order_id, data)
            IN  /\ issued < MaxOrders
                /\ issued' = issued + 1
                /\ orders' = IF new.ok THEN (order_id :> new.order) @@ orders
                              ELSE orders

\* Commands given to the hakosim client.
CmdTakeoff == <<"takeoff", DEFAULT_HEIGHT>>
CmdMove(x, y, z) == <<"moveToPosition", x, y, z>>
CmdGrab == <<"grab_baggage", "True">>
CmdRelease == <<"grab_baggage", "False">>
CmdLand == <<"land">>

\* A transport_multi thread right after Thread.start().
NewRun(order_id) ==
    [order_id |-> order_id, pc |-> "status_preparing", goal_id |-> NoneDest,
     path_ids |-> <<>>, i |-> 0, stop_eta |-> FALSE, eta_pc |-> "unstarted",
     eta_sec |-> 0, released |-> FALSE]

\* The HTTP status DeliveryServer.start_delivery answers with: 400 "Invalid
\* request" without an order id, 200 "delivery started" otherwise.
start_delivery_status(order_id) == IF order_id = NoOrderId THEN 400 ELSE 200

\* DeliveryServer.start_delivery (POST /start_delivery)
start_delivery(order_id) ==
    /\ UNCHANGED <<orders, issued, state, avars, mvars, bvars>>
    /\ IF order_id = NoOrderId
       THEN UNCHANGED runs
       ELSE /\ Len(runs) < MaxRuns
            /\ runs' = Append(runs, NewRun(order_id))

\* DroneController.debug_pos, one round of _state_loop
debug_pos ==
    /\ \E pose \in Poses :
          state' = [state EXCEPT !.x = pose.x, !.y = pose.y, !.z = pose.z,
                                 !.roll = pose.roll, !.pitch = pose.pitch,
                                 !.yaw = pose.yaw]
    /\ UNCHANGED <<orders, issued, runs, avars, mvars, bvars>>

\* ------------------------------------------------------------------ rc/server.py: transport_multi
\* The thread t takes a step that leaves the shared state alone.
Local(t, run) ==
    /\ runs' = [runs EXCEPT ![t] = run]
    /\ UNCHANGED <<orders, issued, state, avars, mvars, bvars>>

\* The thread t writes state["status"].
SetStatus(t, status, pc) ==
    /\ state' = [state EXCEPT !.status = status]
    /\ runs' = [runs EXCEPT ![t].pc = pc]
    /\ UNCHANGED <<orders, issued, avars, mvars, bvars>>

\* The thread t gives the client a command and blocks in it: the command
\* completes, or it raises, which ends the thread where it stands.  Of the
\* commands given, the thread's record keeps whether the cargo release
\* (grab_baggage(False)) is among them.
Command(t, cmd, done) ==
    \E completes \in BOOLEAN :
        LET rel == runs[t].released \/ cmd = CmdRelease IN
        Local(t, IF completes
                 THEN [done EXCEPT !.released = rel]
                 ELSE [runs[t] EXCEPT !.released = rel, !.i = 0, !.pc = "raised"])

At(t, pc) == t \in DOMAIN runs /\ runs[t].pc = pc

\* line 98
status_preparing(t) ==
    /\ At(t, "status_preparing")
    /\ SetStatus(t, Preparing, "takeoff")

\* lines 99-100
takeoff(t) ==
    /\ At(t, "takeoff")
    /\ Command(t, CmdTakeoff, [runs[t] EXCEPT !.pc = "move_baggage"])

\* line 103
move_baggage(t) ==
    /\ At(t, "move_baggage")
    /\ Command(t, CmdMove(BaggagePos.x, BaggagePos.y, DEFAULT_HEIGHT),
               [runs[t] EXCEPT !.pc = "grab"])

\* lines 104-105
grab(t) ==
    /\ At(t, "grab")
    /\ Command(t, CmdGrab, [runs[t] EXCEPT !.pc = "status_start"])

\* line 107
status_start(t) ==
    /\ At(t, "status_start")
    /\ SetStatus(t, EnRouteOut, "plan")

\* lines 110-123 and, with a path, 132-142: the destination of the order as
\* the store has it now, the route from P0, and the start of the ETA thread.
plan(t) ==
    /\ At(t, "plan")
    /\ LET goal == get_destination_id(orders, runs[t].order_id)
           found == astar(CheckPoints, 0, goal)
       IN  Local(t,
             IF found.tag = "raise"
             THEN [runs[t] EXCEPT !.goal_id = goal, !.pc = "raised"]
             ELSE IF found.tag = "None" \/ found.ids = <<>>
             THEN [runs[t] EXCEPT !.goal_id = goal, !.pc = "abort"]
             ELSE [runs[t] EXCEPT !.goal_id = goal, !.path_ids = found.ids,
                                  !.eta_pc = "loop", !.i = 1, !.pc = "move_out"])

\* lines 124-126
abort(t) ==
    /\ At(t, "abort")
    /\ SetStatus(t, Idle, "returned")

\* lines 145-150, one round of the loop
move_out(t) ==
    /\ At(t, "move_out")
    /\ LET run == runs[t]
           target == CheckPoints[run.path_ids[run.i]].pos
       IN  Command(t, CmdMove(target.x, target.y, Get(target, "z", DEFAULT_HEIGHT)),
                   IF run.i < Len(run.path_ids)
                   THEN [run EXCEPT !.i = @ + 1]
                   ELSE [run EXCEPT !.pc = "release"])

\* A slip in transport_multi: the cargo release of line 153 is left out.
release_left_out(t) ==
    /\ At(t, "release")
    /\ Local(t, [runs[t] EXCEPT !.pc = "status_completed"])

\* line 153
release(t) ==
    /\ At(t, "release")
    /\ Command(t, CmdRelease, [runs[t] EXCEPT !.pc = "status_completed"])

\* line 154
status_completed(t) ==
    /\ At(t, "status_completed")
    /\ SetStatus(t, Completed, "complete")

\* lines 155-156
complete(t) ==
    /\ At(t, "complete")
    /\ orders' = complete_order(orders, runs[t].order_id)
    /\ runs' = [runs EXCEPT ![t].pc = "stop_eta"]
    /\ UNCHANGED <<issued, state, avars, mvars, bvars>>

\* line 158
stop_eta(t) ==
    /\ At(t, "stop_eta")
    /\ Local(t, [runs[t] EXCEPT !.stop_eta = TRUE, !.pc = "join"])

\* line 159: t.join() returns once the ETA thread has ended
join(t) ==
    /\ At(t, "join")
    /\ runs[t].eta_pc \in {"exited", "crashed"}
    /\ Local(t, [runs[t] EXCEPT !.pc = "clear_eta"])

\* line 160
clear_eta(t) ==
    /\ At(t, "clear_eta")
    /\ state' = [state EXCEPT !.eta = NoneEta]
    /\ runs' = [runs EXCEPT ![t].pc = "status_returning"]
    /\ UNCHANGED <<orders, issued, avars, mvars, bvars>>

\* line 163
status_returning(t) ==
    /\ At(t, "status_returning")
    /\ state' = [state EXCEPT !.status = Returning]
    /\ runs' = [runs EXCEPT ![t].pc = "move_back", ![t].i = 1]
    /\ UNCHANGED <<orders, issued, avars, mvars, bvars>>

\* reversed(visited[:-1])[i]: visited is the pick-up position followed by the
\* positions of the path; the last one is left out and the rest is retraced.
ReturnTarget(path_ids, i) ==
    IF i < Len(path_ids) THEN CheckPoints[path_ids[Len(path_ids) - i]].pos
    ELSE BaggagePos

\* lines 164-167, one round of the loop
move_back(t) ==
    /\ At(t, "move_back")
    /\ LET run == runs[t]
           pos == ReturnTarget(run.path_ids, run.i)
       IN  Command(t, CmdMove(pos.x, pos.y, Get(pos, "z", DEFAULT_HEIGHT)),
                   IF run.i < Len(run.path_ids)
                   THEN [run EXCEPT !.i = @ + 1]
                   ELSE [run EXCEPT !.pc = "move_home"])

\* line 169
move_home(t) ==
    /\ At(t, "move_home")
    /\ Command(t, CmdMove(0, 0, DEFAULT_HEIGHT), [runs[t] EXCEPT !.pc = "status_idle"])

\* line 170
status_idle(t) ==
    /\ At(t, "status_idle")
    /\ SetStatus(t, Idle, "land")

\* line 171
land(t) ==
    /\ At(t, "land")
    /\ Command(t, CmdLand, [runs[t] EXCEPT !.pc = "returned"])

\* ------------------------------------------------------------------ rc/server.py: eta_loop
\* distance / DEFAULT_SPEED of update_eta, in thirds of a second.
EtaSec(target_pos, st) ==
    LET dx == target_pos.x - st.x
        dy == target_pos.y - st.y
        dz == Get(target_pos, "z", DEFAULT_HEIGHT) - st.z
    IN  Sqrt(dx * dx + dy * dy + dz * dz)

EtaAt(t, pc) == t \in DOMAIN runs /\ runs[t].eta_pc = pc

\* line 134, and the sleep of line 137 before it
eta_loop(t) ==
    /\ EtaAt(t, "loop")
    /\ Local(t, [runs[t] EXCEPT !.eta_pc = IF runs[t].stop_eta THEN "exited"
                                           ELSE "update"])

\* lines 135-136, 39-44: the estimate, and the test "state.get('eta') is None"
eta_update(t) ==
    /\ EtaAt(t, "update")
    /\ LET eta_sec == EtaSec(CheckPoints[runs[t].goal_id].pos, state)
       IN  Local(t, [runs[t] EXCEPT !.eta_sec = eta_sec,
                       !.eta_pc = IF state.eta = NoneEta THEN "write" ELSE "compare"])

\* line 44: "eta_sec < self.state['eta']", which raises TypeError when the
\* ETA has been set to None since the test before it
eta_compare(t) ==
    /\ EtaAt(t, "compare")
    /\ Local(t, IF state.eta = NoneEta
                THEN [runs[t] EXCEPT !.eta_pc = "crashed", !.eta_sec = 0]
                ELSE IF runs[t].eta_sec < state.eta
                THEN [runs[t] EXCEPT !.eta_pc = "write"]
                ELSE [runs[t] EXCEPT !.eta_pc = "loop", !.eta_sec = 0])

\* line 45, and the return of update_eta, which ends its local eta_sec
eta_write(t) ==
    /\ EtaAt(t, "write")
    /\ state' = [state EXCEPT !.eta = runs[t].eta_sec]
    /\ runs' = [runs EXCEPT ![t].eta_pc = "loop", ![t].eta_sec = 0]
    /\ UNCHANGED <<orders, issued, avars, mvars, bvars>>

\* ------------------------------------------------------------------ Spec
Next ==
    \/ \E data \in RegisterBodies : register_order(data)
    \/ \E order_id \in (1..issued) \cup {NoOrderId, UnknownId} :
          start_delivery(order_id)
    \/ debug_pos
    \/ \E t \in DOMAIN runs : status_preparing(t)
    \/ \E t \in DOMAIN runs : takeoff(t)
    \/ \E t \in DOMAIN runs : move_baggage(t)
    \/ \E t \in DOMAIN runs : grab(t)
    \/ \E t \in DOMAIN runs : status_start(t)
    \/ \E t \in DOMAIN runs : plan(t)
    \/ \E t \in DOMAIN runs : abort(t)
    \/ \E t \in DOMAIN runs : move_out(t)
    \/ \E t \in DOMAIN runs : release(t)
    \/ \E t \in DOMAIN runs : status_completed(t)
    \/ \E t \in DOMAIN runs : complete(t)
    \/ \E t \in DOMAIN runs : stop_eta(t)
    \/ \E t \in DOMAIN runs : join(t)
    \/ \E t \in DOMAIN runs : clear_eta(t)
    \/ \E t \in DOMAIN runs : status_returning(t)
    \/ \E t \in DOMAIN runs : move_back(t)
    \/ \E t \in DOMAIN runs : move_home(t)
    \/ \E t \in DOMAIN runs : status_idle(t)
    \/ \E t \in DOMAIN runs : land(t)
    \/ \E t \in DOMAIN runs : eta_loop(t)
    \/ \E t \in DOMAIN runs : eta_update(t)
    \/ \E t \in DOMAIN runs : eta_compare(t)
    \/ \E t \in DOMAIN runs : eta_write(t)

Spec == Init /\ [][Next]_vars

\* ------------------------------------------------------------------ rc/mock_server.py: orders
\* to_nonneg_int: int(v), negative values and values int() refuses become 0.
to_nonneg_int(v) ==
    LET n == PyInt(v) IN IF n.ok THEN (IF n.v >= 0 THEN n.v ELSE 0) ELSE 0

\* str(v)
PyStr(v) == IF "str" \in DOMAIN v THEN v ELSE JStr(ToString(v.int))

\* "not isinstance(point, dict) or not point.get('dest_id')"
DestMissing(data) ==
    \/ "point" \notin DOMAIN data
    \/ "dest_id" \notin DOMAIN data.point
    \/ data.point.dest_id \in {JStr(""), JInt(0)}

\* sum(order.values()) over the item keys
RECURSIVE SumItems(_, _)
SumItems(order, keys) ==
    IF keys = {} THEN 0
    ELSE LET k == CHOOSE k \in keys : TRUE
         IN  order[k] + SumItems(order, keys \ {k})

\* sanitize_order_payload: the order, or the HTTPBadRequest it raises.
sanitize_order_payload(data) ==
    IF DestMissing(data) THEN [ok |-> FALSE]
    ELSE LET order == [k \in ItemKeys |-> to_nonneg_int(Get(data, k, JInt(0)))]
         IN  IF SumItems(order, ItemKeys) = 0 THEN [ok |-> FALSE]
             ELSE [ok |-> TRUE,
                   order |-> order @@ [point |-> [dest_id |-> PyStr(data.point.dest_id)]]]

\* The HTTP status register_order of mock_server.py answers with.
mock_register_order_status(data) ==
    IF sanitize_order_payload(data).ok THEN 200 ELSE 400

\* register_order of mock_server.py (POST /register_order)
mock_register_order(data) ==
    /\ serving
    /\ UNCHANGED <<DRONE_STATE, delivery_lock, tasks, serving, avars, svars, bvars>>
    /\ LET new == sanitize_order_payload(data) IN
       IF ~new.ok THEN UNCHANGED <<ORDERS, uuids>>
       ELSE LET order_id == uuids + 1 IN
            /\ uuids < MaxOrders
            /\ uuids' = uuids + 1
            /\ ORDERS' = (order_id :> (new.order @@ [id |-> order_id])) @@ ORDERS

\* The HTTP status start_delivery of mock_server.py answers with: 400
\* "invalid order_id", 409 "drone busy", 200 "delivery started".
mock_start_delivery_status(order_id) ==
    IF order_id = NoOrderId \/ order_id \notin DOMAIN ORDERS THEN 400
    ELSE IF DRONE_STATE.status \notin {Idle, Completed} THEN 409
    ELSE 200

\* A simulate_delivery task right after create_task.
NewTask(order_id) == [order_id |-> order_id, pc |-> "created", n |-> 0]

\* start_delivery of mock_server.py (POST /start_delivery)
mock_start_delivery(order_id) ==
    /\ serving
    /\ UNCHANGED <<ORDERS, uuids, DRONE_STATE, delivery_lock, serving, avars, svars, bvars>>
    /\ IF mock_start_delivery_status(order_id) # 200
       THEN UNCHANGED tasks
       ELSE /\ Len(tasks) < MaxRuns
            /\ tasks' = Append(tasks, NewTask(order_id))

\* ------------------------------------------------------------------ rc/mock_server.py: simulate_delivery
TaskAt(t, pc) == serving /\ t \in DOMAIN tasks /\ tasks[t].pc = pc

\* Lock.release(): unlocked; the first waiter is the one to go on.
Released(lock) == [lock EXCEPT !.locked = FALSE]

\* Lines 78-82, with the lock just taken: a task whose order is gone returns
\* (and leaves the "async with"); the others set the first status and sleep.
Enter(t, lock) ==
    IF tasks[t].order_id \notin DOMAIN ORDERS
    THEN /\ tasks' = [tasks EXCEPT ![t].pc = "returned"]
         /\ delivery_lock' = Released(lock)
         /\ UNCHANGED DRONE_STATE
    ELSE /\ tasks' = [tasks EXCEPT ![t].pc = "sleep_0_8"]
         /\ delivery_lock' = lock
         /\ DRONE_STATE' = [status |-> Preparing, eta |-> NoneEta]

\* The first step of the task: Lock.acquire() takes a lock that is free and
\* has no waiter, and queues the task otherwise.
sim_begin(t) ==
    /\ TaskAt(t, "created")
    /\ UNCHANGED <<ORDERS, uuids, serving, avars, svars, bvars>>
    /\ IF ~delivery_lock.locked /\ delivery_lock.waiters = <<>>
       THEN Enter(t, [delivery_lock EXCEPT !.locked = TRUE])
       ELSE /\ tasks' = [tasks EXCEPT ![t].pc = "waiting"]
            /\ delivery_lock' = [delivery_lock EXCEPT !.waiters = Append(@, t)]
            /\ UNCHANGED DRONE_STATE

\* The first waiter goes on once the lock has been released.
sim_acquired(t) ==
    /\ TaskAt(t, "waiting")
    /\ ~delivery_lock.locked
    /\ delivery_lock.waiters # <<>> /\ Head(delivery_lock.waiters) = t
    /\ UNCHANGED <<ORDERS, uuids, serving, avars, svars, bvars>>
    /\ Enter(t, [locked |-> TRUE, waiters |-> Tail(delivery_lock.waiters)])

\* line 84
sim_started(t) ==
    /\ TaskAt(t, "sleep_0_8")
    /\ DRONE_STATE' = [status |-> EnRouteOut, eta |-> NoneEta]
    /\ tasks' = [tasks EXCEPT ![t].pc = "sleep_0_5"]
    /\ UNCHANGED <<ORDERS, uuids, delivery_lock, serving, avars, svars, bvars>>

\* line 88
sim_in_delivery(t) ==
    /\ TaskAt(t, "sleep_0_5")
    /\ DRONE_STATE' = [status |-> InDelivery, eta |-> EtaStart]
    /\ tasks' = [tasks EXCEPT ![t].pc = "countdown", ![t].n = CountdownRounds]
    /\ UNCHANGED <<ORDERS, uuids, delivery_lock, serving, avars, svars, bvars>>

\* lines 91-92
Countdown(eta) == IF eta # NoneEta /\ eta > 0 THEN eta - 1 ELSE eta

\* lines 90-92, a round of the countdown that is not the last
sim_countdown(t) ==
    /\ TaskAt(t, "countdown")
    /\ tasks[t].n > 1
    /\ DRONE_STATE' = [DRONE_STATE EXCEPT !.eta = Countdown(@)]
    /\ tasks' = [tasks EXCEPT ![t].n = @ - 1]
    /\ UNCHANGED <<ORDERS, uuids, delivery_lock, serving, avars, svars, bvars>>

\* lines 90-97: the last round of the countdown goes on, without a pause, to
\* the completion of the order
sim_completed(t) ==
    /\ TaskAt(t, "countdown")
    /\ tasks[t].n = 1
    /\ DRONE_STATE' = [status |-> Completed, eta |-> NoneEta]
    /\ ORDERS' = [k \in DOMAIN ORDERS \ {tasks[t].order_id} |-> ORDERS[k]]
    /\ tasks' = [tasks EXCEPT ![t].pc = "sleep_1_2", ![t].n = 0]
    /\ UNCHANGED <<uuids, delivery_lock, serving, avars, svars, bvars>>

\* line 100
sim_returning(t) ==
    /\ TaskAt(t, "sleep_1_2")
    /\ DRONE_STATE' = [DRONE_STATE EXCEPT !.status = Returning]
    /\ tasks' = [tasks EXCEPT ![t].pc = "sleep_1_0"]
    /\ UNCHANGED <<ORDERS, uuids, delivery_lock, serving, avars, svars, bvars>>

\* line 102, and the end of the "async with"
sim_idle(t) ==
    /\ TaskAt(t, "sleep_1_0")
    /\ DRONE_STATE' = [status |-> Idle, eta |-> NoneEta]
    /\ tasks' = [tasks EXCEPT ![t].pc = "returned"]
    /\ delivery_lock' = Released(delivery_lock)
    /\ UNCHANGED <<ORDERS, uuids, serving, avars, svars, bvars>>

\* on_cleanup, when the server shuts down: every task that has not returned
\* is cancelled where it waits; CancelledError leaves the "async with", which
\* releases the lock, and takes the waiters off the lock.  No request is
\* served afterwards.
on_cleanup ==
    /\ serving
    /\ serving' = FALSE
    /\ tasks' = [t \in DOMAIN tasks |->
                    IF tasks[t].pc = "returned" THEN tasks[t]
                    ELSE [tasks[t] EXCEPT !.pc = "cancelled"]]
    /\ delivery_lock' = [locked |-> FALSE, waiters |-> <<>>]
    /\ broadcaster' = "cancelled"
    /\ UNCHANGED <<ORDERS, uuids, DRONE_STATE, avars, svars>>
    /\ UNCHANGED <<connected_ws_delivery, connected_ws_order, broadcast_task,
                   WS_DELIVERY, WS_ORDER, ws_conn, delivered, push_failed>>

\* ------------------------------------------------------------------ SpecMock
MockNext ==
    \/ \E data \in MockRegisterBodies : mock_register_order(data)
    \/ \E order_id \in (1..uuids) \cup {NoOrderId, UnknownId} :
          mock_start_delivery(order_id)
    \/ \E t \in DOMAIN tasks : sim_begin(t)
    \/ \E t \in DOMAIN tasks : sim_acquired(t)
    \/ \E t \in DOMAIN tasks : sim_started(t)
    \/ \E t \in DOMAIN tasks : sim_in_delivery(t)
    \/ \E t \in DOMAIN tasks : sim_countdown(t)
    \/ \E t \in DOMAIN tasks : sim_completed(t)
    \/ \E t \in DOMAIN tasks : sim_returning(t)
    \/ \E t \in DOMAIN tasks : sim_idle(t)
    \/ on_cleanup

SpecMock == Init /\ [][MockNext]_vars

\* ------------------------------------------------------------------ WebSocket connections
\* The ws object a new connection gets: the next one not yet used.
NewSocket(w) ==
    /\ ws_conn[w].conn = "unused"
    /\ \A v \in Sockets : v < w => ws_conn[v].conn # "unused"

\* ws.send_str(msg) raises on a connection that is lost.
SendRaises(w) == ws_conn[w].conn = "broken"

\* The connection of w is lost (the peer is gone); the handler of w has not
\* noticed yet, and from now on send_str raises.
connection_lost(w) ==
    /\ ws_conn[w].conn = "open"
    /\ ws_conn' = [ws_conn EXCEPT ![w].conn = "broken"]
    /\ UNCHANGED <<connected_ws_delivery, connected_ws_order, broadcast_task,
                   WS_DELIVERY, WS_ORDER, broadcaster, delivered, push_failed>>
    /\ UNCHANGED <<avars, svars, mvars>>

\* ------------------------------------------------------------------ rc/server.py: broadcast
\* websocket_handler_delivery / websocket_handler_order up to "async for":
\* the new ws joins the subscriber set of its route.
websocket_handler_open(w, path) ==
    /\ broadcast_task # "cancelled"
    /\ NewSocket(w)
    /\ ws_conn' = [ws_conn EXCEPT ![w] = [conn |-> "open", path |-> path]]
    /\ connected_ws_delivery' = IF path = DeliveryWs
                                THEN connected_ws_delivery \cup {w}
                                ELSE connected_ws_delivery
    /\ connected_ws_order' = IF path = OrderWs THEN connected_ws_order \cup {w}
                             ELSE connected_ws_order
    /\ UNCHANGED <<broadcast_task, WS_DELIVERY, WS_ORDER, broadcaster,
                   delivered, push_failed>>
    /\ UNCHANGED <<avars, svars, mvars>>

\* The "finally" of the handlers, when "async for" ends (the peer has closed,
\* or the lost connection has been noticed): set.remove(ws).
websocket_handler_close(w) ==
    /\ ws_conn[w].conn \in {"open", "broken"}
    /\ w \in connected_ws_delivery \cup connected_ws_order
    /\ ws_conn' = [ws_conn EXCEPT ![w].conn = "closed"]
    /\ connected_ws_delivery' = connected_ws_delivery \ {w}
    /\ connected_ws_order' = connected_ws_order \ {w}
    /\ UNCHANGED <<broadcast_task, WS_DELIVERY, WS_ORDER, broadcaster,
                   delivered, push_failed>>
    /\ UNCHANGED <<avars, svars, mvars>>

\* "if subs: await asyncio.gather(*[ws.send_str(msg) for ws in subs])": every
\* send is started; the first exception of one of them leaves gather and,
\* with nothing to catch it, ends broadcast_state.  The set is left alone.
Gather(subs, reached, go_on) ==
    LET raising == {w \in subs : SendRaises(w)} IN
    /\ delivered' = reached \cup (subs \ raising)
    /\ push_failed' = push_failed \cup raising
    /\ broadcast_task' = IF raising # {} THEN "failed" ELSE go_on
    /\ UNCHANGED <<connected_ws_delivery, connected_ws_order, WS_DELIVERY,
                   WS_ORDER, broadcaster, ws_conn>>
    /\ UNCHANGED <<avars, svars, mvars>>

\* broadcast_state, lines 273-279: a round begins and pushes the snapshot to
\* the subscribers of /Delivery/ws
broadcast_state_delivery ==
    /\ broadcast_task = "delivery"
    /\ Gather(connected_ws_delivery, {}, "order")

\* lines 280-282: the subscribers of /Order/ws, and the sleep
broadcast_state_order ==
    /\ broadcast_task = "order"
    /\ Gather(connected_ws_order, delivered, "delivery")

\* cleanup_background_tasks: cancel() of a task that has not ended
cleanup_background_tasks ==
    /\ broadcast_task \in {"delivery", "order"}
    /\ broadcast_task' = "cancelled"
    /\ UNCHANGED <<connected_ws_delivery, connected_ws_order, WS_DELIVERY,
                   WS_ORDER, broadcaster, ws_conn, delivered, push_failed>>
    /\ UNCHANGED <<avars, svars, mvars>>

BroadcastNext ==
    \/ \E w \in Sockets : \E path \in {DeliveryWs, OrderWs} :
          websocket_handler_open(w, path)
    \/ \E w \in Sockets : websocket_handler_close(w)
    \/ \E w \in Sockets : connection_lost(w)
    \/ broadcast_state_delivery
    \/ broadcast_state_order
    \/ cleanup_background_tasks

SpecBroadcast == Init /\ [][BroadcastNext]_vars

\* ------------------------------------------------------------------ rc/mock_server.py: broadcast
\* ws_delivery / ws_order up to "async for"
ws_open(w, path) ==
    /\ serving
    /\ NewSocket(w)
    /\ ws_conn' = [ws_conn EXCEPT ![w] = [conn |-> "open", path |-> path]]
    /\ WS_DELIVERY' = IF path = DeliveryWs THEN WS_DELIVERY \cup {w} ELSE WS_DELIVERY
    /\ WS_ORDER' = IF path = OrderWs THEN WS_ORDER \cup {w} ELSE WS_ORDER
    /\ UNCHANGED <<connected_ws_delivery, connected_ws_order, broadcast_task,
                   broadcaster, delivered, push_failed>>
    /\ UNCHANGED <<avars, svars, mvars>>

\* The "finally" of ws_delivery / ws_order: set.discard(ws), which does
\* nothing for a ws the broadcaster has taken out already.
ws_close(w) ==
    /\ ws_conn[w].conn \in {"open", "broken"}
    /\ ws_conn' = [ws_conn EXCEPT ![w].conn = "closed"]
    /\ WS_DELIVERY' = IF ws_conn[w].path = DeliveryWs THEN WS_DELIVERY \ {w}
                      ELSE WS_DELIVERY
    /\ WS_ORDER' = IF ws_conn[w].path = OrderWs THEN WS_ORDER \ {w} ELSE WS_ORDER
    /\ UNCHANGED <<connected_ws_delivery, connected_ws_order, broadcast_task,
                   broadcaster, delivered, push_failed>>
    /\ UNCHANGED <<avars, svars, mvars>>

\* "for ws in list(subs): try: await ws.send_str(snapshot) except Exception:
\* dead.append(ws)": the ws objects on which the send raised.
Dead(subs) == {w \in subs : SendRaises(w)}

\* broadcast_snapshot, lines 52-61: a round begins, pushes the snapshot to
\* the subscribers of /Delivery/ws and discards the dead ones
broadcast_snapshot_delivery ==
    /\ serving
    /\ broadcaster = "delivery"
    /\ delivered' = WS_DELIVERY \ Dead(WS_DELIVERY)
    /\ push_failed' = push_failed \cup Dead(WS_DELIVERY)
    /\ WS_DELIVERY' = WS_DELIVERY \ Dead(WS_DELIVERY)
    /\ broadcaster' = "order"
    /\ UNCHANGED <<connected_ws_delivery, connected_ws_order, broadcast_task,
                   WS_ORDER, ws_conn>>
    /\ UNCHANGED <<avars, svars, mvars>>

\* lines 63-72: the subscribers of /Order/ws, and the sleep
broadcast_snapshot_order ==
    /\ serving
    /\ broadcaster = "order"
    /\ delivered' = delivered \cup (WS_ORDER \ Dead(WS_ORDER))
    /\ push_failed' = push_failed \cup Dead(WS_ORDER)
    /\ WS_ORDER' = WS_ORDER \ Dead(WS_ORDER)
    /\ broadcaster' = "delivery"
    /\ UNCHANGED <<connected_ws_delivery, connected_ws_order, broadcast_task,
                   WS_DELIVERY, ws_conn>>
    /\ UNCHANGED <<avars, svars, mvars>>

MockBroadcastNext ==
    \/ \E w \in Sockets : \E path \in {DeliveryWs, OrderWs} : ws_open(w, path)
    \/ \E w \in Sockets : ws_close(w)
    \/ \E w \in Sockets : connection_lost(w)
    \/ broadcast_snapshot_delivery
    \/ broadcast_snapshot_order
    \/ on_cleanup

SpecMockBroadcast == Init /\ [][MockBroadcastNext]_vars

\* ------------------------------------------------------------------ graphs
\* Node ids of the graphs of SpecAstar, and an id that is never a node (a
\* dangling neighbour reference, or the destination of an unknown order).
NodeIds == 0..(MaxNodes - 1)
Dangling == MaxNodes

\* Positions of the nodes, corners of a 3 m x 4 m rectangle repeated along x
\* every 6 m: all distances between them are whole half metres.  Nodes with
\* an odd id omit "z" (DEFAULT_HEIGHT applies), the others give it.
NodePos(n) ==
    LET k == n \div 4
        c == n % 4
        x == 12 * k + (IF c \in {1, 2} THEN 6 ELSE 0)
        y == IF c \in {2, 3} THEN 8 ELSE 0
    IN  IF n % 2 = 1 THEN [x |-> x, y |-> y]
        ELSE [x |-> x, y |-> y, z |-> DEFAULT_HEIGHT]

\* The elements of a set of ids as a list, ascending or descending.
RECURSIVE SortedSeq(_, _)
SortedSeq(S, asc) ==
    IF S = {} THEN <<>>
    ELSE LET m == CHOOSE x \in S : \A y \in S : IF asc THEN x <= y ELSE x >= y
         IN  <<m>> \o SortedSeq(S \ {m}, asc)

\* The graph with the directed neighbour entries E (pairs <<node, neighbour>>).
GraphOf(E, asc) ==
    [n \in NodeIds |->
        [pos |-> NodePos(n),
         connect |-> SortedSeq({e[2] : e \in {d \in E : d[1] = n}}, asc)]]

AllEntries == NodeIds \X (NodeIds \cup {Dangling})

\* ------------------------------------------------------------------ SpecAstar
AstarInit ==
    /\ ServerInit
    /\ MockInit
    /\ BroadcastInit
    /\ \E E \in SUBSET AllEntries : \E asc \in BOOLEAN :
          /\ Cardinality(E) <= MaxEdges
          /\ nodes = GraphOf(E, asc)
    /\ start_id \in NodeIds \cup {Dangling}
    /\ goal_id \in NodeIds \cup {Dangling}
    /\ astar_ret = Pending

\* path_ids = self.astar(nodes, start_id, goal_id)
AstarCall ==
    /\ astar_ret = Pending
    /\ astar_ret' = astar(nodes, start_id, goal_id)
    /\ UNCHANGED <<nodes, start_id, goal_id>>
    /\ UNCHANGED <<svars, mvars, bvars>>

AstarNext == AstarCall

SpecAstar == AstarInit /\ [][AstarNext]_vars

\* ------------------------------------------------------------------ graph facts
\* Neighbour entries of node a that are nodes (the planner skips the others).
Neighbors(nds, a) ==
    {nds[a].connect[i] : i \in 1..Len(nds[a].connect)} \cap DOMAIN nds

\* The nodes reachable from the set R along neighbour entries.
RECURSIVE ReachClosure(_, _)
ReachClosure(nds, R) ==
    LET R2 == R \cup UNION {Neighbors(nds, a) : a \in R}
    IN  IF R2 = R THEN R ELSE ReachClosure(nds, R2)

Reachable(nds, start, goal) ==
    start \in DOMAIN nds /\ goal \in ReachClosure(nds, {start})

\* The sum of the edge costs along the list of node ids p.
RECURSIVE PathCost(_, _)
PathCost(nds, p) ==
    IF Len(p) <= 1 THEN 0
    ELSE distance(nds[p[1]].pos, nds[p[2]].pos) + PathCost(nds, Tail(p))

\* The least cost from start to every node, by k rounds of relaxing every
\* neighbour entry (Inf for a node not reached).  adj[a] are the neighbours
\* of a that are nodes, cost[a][n] the cost of the edge from a to n.
RECURSIVE LeastCosts(_, _, _, _)
LeastCosts(adj, cost, d, k) ==
    IF k = 0 THEN d
    ELSE LeastCosts(adj, cost,
           [n \in DOMAIN d |->
              LET all == {d[n]} \cup {d[a] + cost[a][n] :
                                        a \in {b \in DOMAIN d : d[b] < Inf /\ n \in adj[b]}}
              IN  CHOOSE c \in all : \A o \in all : c <= o],
           k - 1)

\* The minimum of the cost over all paths from start to goal.
MinCost(nds, start, goal) ==
    LET N == DOMAIN nds
        adj == [a \in N |-> Neighbors(nds, a)]
        cost == [a \in N |-> [n \in N |-> distance(nds[a].pos, nds[n].pos)]]
    IN  LeastCosts(adj, cost, [n \in N |-> IF n = start THEN 0 ELSE Inf],
                   Cardinality(N) - 1)[goal]

\* checkPoints.json: the path from P0 to P2 is [P0, P1, P2], of cost 3 m + 4 m.
CheckPointsRoute ==
    /\ astar(CheckPoints, 0, 2) = Path(<<0, 1, 2>>)
    /\ PathCost(CheckPoints, <<0, 1, 2>>) = 6 + 8

\* ------------------------------------------------------------------ claim vocabulary
\* Order ids a request may name: the ids that can be issued, and one that never is.
RequestIds == (1..MaxOrders) \cup {UnknownId}

\* A transport_multi thread that has been started and has not ended.
InFlight(t) == runs[t].pc \notin {"returned", "raised"}

\* A thread between its first write of the status (line 98) and its last
\* (line 125 or line 170).
Executing(t) ==
    runs[t].pc \notin {"status_preparing", "land", "returned", "raised"}

\* The item quantities of a body, as sent.
Quantities(data) ==
    {Get(data, k, JInt(0)) : k \in {"omurice", "hamburg", "onigiri"}}
AllZero(data) == Quantities(data) = {JInt(0)}
SomePositive(data) == \E q \in Quantities(data) : "int" \in DOMAIN q /\ q.int > 0

\* ------------------------------------------------------------------ C1
\* C1: start_delivery answers success only when no delivery run is claimed
\* or in flight at the moment of the call (so of two calls with no run
\* finishing in between, one is refused).
C1_StartExclusive ==
    [][\A order_id \in DOMAIN orders :
          (start_delivery(order_id) /\ start_delivery_status(order_id) = 200)
              => \A t \in DOMAIN runs : ~InFlight(t)]_vars

\* ------------------------------------------------------------------ C2
\* C2: at most one delivery run is executing its per-delivery sequence.
C2_NoOverlap ==
    Cardinality({t \in DOMAIN runs : Executing(t)}) <= 1

C4_FinalState ==
    [][\A t \in DOMAIN runs :
          (land(t) /\ runs'[t].pc = "returned")
              => /\ runs[t].order_id \notin DOMAIN orders'
                 /\ state'.status = Idle
                 /\ state'.eta = NoneEta]_vars

\* ------------------------------------------------------------------ C5
\* C5: when a delivery run aborts for want of a route, its order is still in
\* the store, the status is Idle, the ETA is absent, and the run has given no
\* cargo-release command.
C5_UnreachableAbort ==
    [][\A t \in DOMAIN runs :
          abort(t)
              => /\ runs[t].order_id \in DOMAIN orders'
                 /\ state'.status = Idle
                 /\ state'.eta = NoneEta
                 /\ ~runs'[t].released]_vars

\* ------------------------------------------------------------------ C6
\* C6: start_delivery with an order id that is not in the store is refused
\* and starts no delivery run.
C6_UnknownOrderRefused ==
    [][\A order_id \in RequestIds \ DOMAIN orders :
          start_delivery(order_id)
              => /\ start_delivery_status(order_id) \in {400, 404}
                 /\ runs' = runs]_vars

\* ------------------------------------------------------------------ C7
\* C7: register_order refuses (400) a body without a destination or with
\* all quantities zero and leaves the store alone; a body with a destination
\* and a positive quantity is answered 200 and adds one order under a new id.
C7_RegisterValidated ==
    [][\A data \in RegisterBodies :
          register_order(data)
              => /\ (PointMissing(data) \/ AllZero(data))
                       => /\ register_order_status(data) = 400
                          /\ orders' = orders
                 /\ (~PointMissing(data) /\ SomePositive(data))
                       => /\ register_order_status(data) = 200
                          /\ Cardinality(DOMAIN orders') = Cardinality(DOMAIN orders) + 1
                          /\ \E id \in DOMAIN orders' : id \notin 1..issued]_vars

\* ------------------------------------------------------------------ C8
\* C8: every quantity of every stored order is a non-negative integer.
C8_QuantitiesNonNegative ==
    \A id \in DOMAIN orders :
        /\ orders[id].omurice >= 0
        /\ orders[id].hamburg >= 0
        /\ orders[id].onigiri >= 0

\* ------------------------------------------------------------------ C9
\* C9: whenever astar returns a path for nodes start and goal of the graph,
\* the path starts with start, ends with goal, and each element is in the
\* neighbour list of the one before it.
C9_PathIsWalk ==
    (astar_ret.tag = "path") =>
        LET p == astar_ret.ids IN
        /\ Len(p) >= 1
        /\ p[1] = start_id
        /\ p[Len(p)] = goal_id
        /\ \A i \in 1..(Len(p) - 1) :
              \E j \in 1..Len(nodes[p[i]].connect) : nodes[p[i]].connect[j] = p[i + 1]

\* A path through an intermediate node has been returned, in a graph that
\* also holds a dangling neighbour reference.
C9_Witness ==
    /\ astar_ret.tag = "path"
    /\ Len(astar_ret.ids) >= 3
    /\ \E n \in DOMAIN nodes : \E j \in 1..Len(nodes[n].connect) :
          nodes[n].connect[j] \notin DOMAIN nodes

\* ------------------------------------------------------------------ C10
\* C10: astar never raises, and when the goal is not reachable from the start
\* along neighbour entries that are nodes, it returns None (no path).
C10_UnreachableIsNone ==
    (astar_ret # Pending) =>
        /\ astar_ret.tag # "raise"
        /\ ~Reachable(nodes, start_id, goal_id) => astar_ret = None

\* ------------------------------------------------------------------ C11
\* C11: the path astar returns is a lowest-cost path: the sum of the
\* Euclidean edge costs along it equals the minimum over all paths from start
\* to goal in the graph; in checkPoints.json (P0 - P1 - P2) the path from P0
\* to P2 is [P0, P1, P2] with cost 3 m + 4 m.
C11_LowestCost ==
    /\ (astar_ret.tag = "path") =>
           PathCost(nodes, astar_ret.ids) = MinCost(nodes, start_id, goal_id)
    /\ CheckPointsRoute

\* The direct edge has been returned where a route through a third node
\* exists as well.
C11_Witness ==
    /\ astar_ret.tag = "path"
    /\ Len(astar_ret.ids) = 2
    /\ \E n \in DOMAIN nodes \ {start_id, goal_id} :
          /\ n \in Neighbors(nodes, start_id)
          /\ goal_id \in Neighbors(nodes, n)

\* ------------------------------------------------------------------ C12
\* A thread whose outbound leg is under way: from the start of its ETA thread
\* (line 140) to the clearing of the ETA (line 160).
LegActive(t) ==
    runs[t].pc \in {"move_out", "release", "status_completed", "complete",
                    "stop_eta", "join", "clear_eta"}

\* C12: of two successive values of the ETA that are both present the later
\* is not the greater, whatever positions the polling loop writes in between;
\* and once no outbound leg is under way the ETA is absent.
C12_EtaNonIncreasing ==
    [][/\ (state.eta # NoneEta /\ state'.eta # NoneEta) => state'.eta <= state.eta
       /\ (\A t \in DOMAIN runs' : ~LegActive(t)') => state'.eta = NoneEta]_vars

\* ------------------------------------------------------------------ C13
\* C13: a subscriber on which the push of a snapshot has failed is out of
\* the subscriber sets from that round on, so that no later round pushes to it.
C13_FailedPruned ==
    push_failed \cap (connected_ws_delivery \cup connected_ws_order) = {}

\* ------------------------------------------------------------------ C14
\* C14: a failing push never ends the broadcast task, and every pass of a
\* round reaches every subscriber of its set whose connection stands.
C14_BroadcastGoesOn ==
    [][/\ broadcast_task' # "failed"
       /\ broadcast_state_delivery =>
             \A w \in connected_ws_delivery : ~SendRaises(w) => w \in delivered'
       /\ broadcast_state_order =>
             \A w \in connected_ws_order : ~SendRaises(w) => w \in delivered']_vars

\* ------------------------------------------------------------------ C15
\* The changes of the status the delivery sequence allows.
PhaseSteps ==
    { <<Idle, Preparing>>, <<Preparing, EnRouteOut>>, <<EnRouteOut, Completed>>,
      <<EnRouteOut, Idle>>, <<Completed, Returning>>, <<Returning, Idle>> }

\* C15: the status changes only along Idle, Preparing, EnRouteOut, Completed,
\* Returning, Idle (or from EnRouteOut back to Idle, on the abort), and only
\* in a step of a delivery thread itself: never in a request handler, the
\* polling loop or an ETA thread.
C15_PhaseSequence ==
    [][state'.status # state.status =>
          /\ <<state.status, state'.status>> \in PhaseSteps
          /\ \E t \in DOMAIN runs : runs'[t].pc # runs[t].pc]_vars

\* ------------------------------------------------------------------ C16
\* C16: the ETA thread has been stopped and joined, and the ETA cleared,
\* before the status leaves the outbound leg: whenever the status is not
\* EnRouteOut the ETA is absent.
C16_EtaOnlyEnRoute ==
    state.status # EnRouteOut => state.eta = NoneEta

\* ------------------------------------------------------------------ C17
\* A thread that has given the vehicle a command which has not completed, or
\* that has commands of its run still to give.
Commanding(t) ==
    runs[t].pc \in {"takeoff", "move_baggage", "grab", "move_out", "release",
                    "move_back", "move_home", "land"}

\* C17: the status is set back to Idle only after the land command, the
\* last of the return, has completed: the status is never Idle while a
\* vehicle command of a delivery run is outstanding.
C17_IdleAfterLand ==
    state.status = Idle => \A t \in DOMAIN runs : ~Commanding(t)

\* ------------------------------------------------------------------ C18
\* C18: an order leaves the store only in the step of a delivery run for it
\* that has moved to every node of its planned path, the destination last,
\* and has then given the cargo-release command; a run that aborted or
\* failed before the cargo release has not removed its order.
C18_RemovedAfterRelease ==
    [][\A id \in DOMAIN orders :
          id \notin DOMAIN orders' =>
              \E t \in DOMAIN runs :
                  /\ runs[t].order_id = id
                  /\ complete(t)
                  /\ runs[t].released
                  /\ runs[t].path_ids # <<>>
                  /\ runs[t].i = Len(runs[t].path_ids)
                  /\ runs[t].path_ids[runs[t].i] = runs[t].goal_id]_vars

\* A run has delivered its order and the order is gone, and another run has
\* failed or aborted short of the cargo release with its order still there.
C18_Witness ==
    /\ \E t \in DOMAIN runs :
          /\ runs[t].released
          /\ runs[t].pc = "stop_eta"
          /\ runs[t].order_id \notin DOMAIN orders
    /\ \E t \in DOMAIN runs :
          /\ ~runs[t].released
          /\ runs[t].pc \in {"raised", "returned"}
          /\ runs[t].order_id \in DOMAIN orders

\* ------------------------------------------------------------------ C19
\* C19: no step of a delivery run (its thread or its ETA thread), whether
\* the run completes, aborts or fails on a command, removes or changes an
\* order other than its own, or touches the broadcast task and its
\* subscribers; and the polling loop can always take its next round.
C19_FailureIsolation ==
    /\ [](ENABLED debug_pos)
    /\ [][\A t \in DOMAIN runs :
            runs'[t] # runs[t] =>
                /\ \A id \in DOMAIN orders \ {runs[t].order_id} :
                      id \in DOMAIN orders' /\ orders'[id] = orders[id]
                /\ UNCHANGED bvars]_vars

\* One run has failed on a command and another has delivered its order,
\* while an order of neither is in the store.
C19_Witness ==
    /\ \E t \in DOMAIN runs : runs[t].pc = "raised"
    /\ \E t \in DOMAIN runs :
          /\ runs[t].released
          /\ runs[t].pc = "returned"
          /\ \E id \in DOMAIN orders : id # runs[t].order_id

\* ------------------------------------------------------------------ C20
\* C20: for every order id at most one delivery run ever executes, however
\* many start requests have named it.
C20_AtMostOneRun ==
    \A id \in 1..issued :
        Cardinality({t \in DOMAIN runs :
                        runs[t].order_id = id /\ runs[t].pc # "status_preparing"}) <= 1

====
